---------------------------- MODULE Spec2Model ----------------------------
(***************************************************************************)
(* The foreign-call boundary `verify` of crates/bls-snark-sys              *)
(* (src/snark/mod.rs).  One call of verify is a small sequential machine:  *)
(* the closure handed to convert_result_to_bool builds the first           *)
(* EpochBlock, builds the last EpochBlock, reads the verifying key, reads  *)
(* the proof and calls epoch_snark::verify; every `?` leaves the closure    *)
(* with the error, and the adapter turns the closure's result into a bool. *)
(*                                                                         *)
(* read_slice, EpochBlock::try_from and convert_result_to_bool live in     *)
(* files of the crate other than mod.rs; they are modelled from their      *)
(* written contract.  The public-key decoder and the verifier belong to    *)
(* another crate: the decoder is a fixed total function on chunks, the     *)
(* verifier an arbitrary deterministic function whose graph (extMemo) is   *)
(* sampled the first time an argument tuple is presented.                  *)
(***************************************************************************)
EXTENDS Integers, Sequences, FiniteSets, TLC

\* ------------------------------------------------------------------ bounds

\* Largest pubkeys_num of an epoch descriptor when one caller runs.
MaxKeys == 2

\* Largest pubkeys_num when two callers run interleaved.
PairMaxKeys == 1

\* ------------------------------------------------------- values and memory

\* Bytes of caller memory (a two-letter alphabet stands for u8).
Byte == {0, 1}

\* Size of one serialized public key (96 in the crate; 2 bytes here).
KEY_ENCODING_SIZE == 2

\* The null pointer.  A non-null pointer is the name of the region it addresses.
NULL == "null"

Callers == {"a", "b"}

Ok(v) == [kind |-> "Ok", val |-> v]

Err(e, i) == [kind |-> "Err", err |-> e, at |-> i]

\* A panic-equivalent raised inside a stage.
Fault == [kind |-> "Fault"]

\* Slots of the closure before the stage that fills them has run.
NoBytes == <<>>

NoBlock == [index |-> 0, maximum_non_signers |-> 0, new_public_keys |-> <<>>]

\* ------------------------------------------------------- Boundary Marshaler

\* read_slice(ptr, len): the len bytes at ptr, owned; InvalidInput for a null
\* pointer or a zero length.
read_slice(m, ptr, len) ==
    IF len = 0 \/ ptr = NULL
    THEN Err("InvalidInput", 0)
    ELSE Ok(SubSeq(m[ptr], 1, len))

\* ------------------------------------------------ Epoch Descriptor Validator

\* The external decoder on one chunk: chunks <<0,1>> and <<1,0>> are the
\* points 1 and 2, <<1,1>> is no point, and <<0,0>> makes the decoder panic.
decode_public_key(chunk) ==
    LET n == 2 * chunk[1] + chunk[2]
    IN  IF n = 0 THEN Fault
        ELSE IF n = 3 THEN Err("KeyDecodeError", 0)
        ELSE Ok([point |-> n])

\* The serialized form of a decoded key (the decoder's inverse).
encode_public_key(key) == <<key.point \div 2, key.point % 2>>

\* Bytes [(i-1)*KEY_ENCODING_SIZE, i*KEY_ENCODING_SIZE) of data, i from 1.
chunk_at(data, i) ==
    SubSeq(data, (i - 1) * KEY_ENCODING_SIZE + 1, i * KEY_ENCODING_SIZE)

\* The decoding loop: chunks i..num of data in buffer order, stopping at the
\* first chunk that does not decode.
RECURSIVE read_pubkeys(_, _, _, _)
read_pubkeys(data, num, i, acc) ==
    IF i > num THEN Ok(acc)
    ELSE LET r == decode_public_key(chunk_at(data, i))
         IN  IF r.kind = "Ok" THEN read_pubkeys(data, num, i + 1, Append(acc, r.val))
             ELSE IF r.kind = "Err" THEN Err(r.err, i)
             ELSE Fault

\* EpochBlock::try_from(&EpochBlockFFI).
try_from(m, e) ==
    LET r == read_slice(m, e.pubkeys, e.pubkeys_num * KEY_ENCODING_SIZE)
    IN  IF r.kind # "Ok" THEN r
        ELSE LET ks == read_pubkeys(r.val, e.pubkeys_num, 1, <<>>)
             IN  IF ks.kind # "Ok" THEN ks
                 ELSE Ok([index |-> e.index,
                          maximum_non_signers |-> e.maximum_non_signers,
                          new_public_keys |-> ks.val])

\* ------------------------------------------------------ Verification Adapter

\* What epoch_snark::verify can answer: the proof is valid, the proof is
\* invalid, an error of its own, or a panic.
VerifierOutcomes == {"accept", "reject", "VerifierError", "fault"}

VerifierResult(o) ==
    CASE o = "accept" -> Ok(TRUE)
      [] o = "reject" -> Ok(FALSE)
      [] o = "VerifierError" -> Err("VerifierError", 0)
      [] OTHER -> Fault

\* convert_result_to_bool: true for the verifier's success, false for every
\* error and for a caught panic.
convert_result_to_bool(r) == r.kind = "Ok" /\ r.val = TRUE

\* A variant in which the first statement runs before the closure is entered.
InsideAdapterHoisted(s) == s # "build_first"

\* The statements of verify that run inside the closure given to
\* convert_result_to_bool: all of them (lines 37 to 44).
InsideAdapter(s) == TRUE

\* Where a panic raised in stage s goes: to the adapter, which catches it,
\* when s runs inside the closure; across the foreign boundary otherwise.
FaultExit(s) == IF InsideAdapter(s) THEN "convert" ELSE "unwound"

\* The closure's first statement (line 38).
EntryStage == "build_first"

\* A variant with the second and third statements exchanged.
NextStageSwapped(s) ==
    CASE s = "build_first" -> "read_vk"
      [] s = "read_vk" -> "build_last"
      [] s = "build_last" -> "read_proof"
      [] s = "read_proof" -> "call_verifier"

\* The statement after s, in program order (lines 38 to 43).
NextStage(s) ==
    CASE s = "build_first" -> "build_last"
      [] s = "build_last" -> "read_vk"
      [] s = "read_vk" -> "read_proof"
      [] s = "read_proof" -> "call_verifier"

\* Variants of `?`: the error is dropped, or the stage is tried again.
QuestionIgnored(r, s) == NextStage(s)

QuestionRetried(r, s) == IF r.kind = "Ok" THEN NextStage(s) ELSE s

\* The `?` after a stage: go on with the value, or leave the closure with
\* the error.
Question(r, s) == IF r.kind = "Ok" THEN NextStage(s) ELSE "convert"

\* A variant in which the first try_from is given the last descriptor.
FirstEpochArgOther(a) == a.last_epoch

\* The descriptor the first try_from is given.
FirstEpochArg(a) == a.first_epoch

\* A variant in which the last try_from is given the first descriptor.
LastEpochArgOther(a) == a.first_epoch

\* The descriptor the last try_from is given.
LastEpochArg(a) == a.last_epoch

\* A variant with the two blocks exchanged.
VerifierCallArgsSwapped(vk, first, last, proof) ==
    [vk |-> vk, first |-> last, last |-> first, proof |-> proof]

\* The argument list of epoch_snark::verify(&vk, &first_epoch, &last_epoch, &proof).
VerifierCallArgs(vk, first, last, proof) ==
    [vk |-> vk, first |-> first, last |-> last, proof |-> proof]

\* A variant that discards the verifier's boolean.
ClosureValueDropped(r) == IF r.kind = "Ok" THEN Ok(TRUE) ELSE r

\* The closure's value: the verifier's own result.
ClosureValue(r) == r

\* A variant in which a read consumes the region.
MemAfterReadCleared(m, region) == [m EXCEPT ![region] = <<>>]

\* Caller memory after a read through a *const u8: as it was.
MemAfterRead(m, region) == m

\* -------------------------------------------------------------------- state

VARIABLES
    active,        \* the callers that run
    args,          \* args[c]: the arguments of c's call
    mem,           \* mem[c]: c's memory regions vk, proof, first, last
    mem0,          \* the memory as the callers set it up
    pc,            \* pc[c]: the stage c's call is at
    firstBlock,    \* the closure's first_epoch
    lastBlock,     \* the closure's last_epoch
    vkBytes,       \* the closure's vk
    proofBytes,    \* the closure's proof
    stageResult,   \* stageResult[c]: stage -> the Result it produced, this call
    started,       \* started[c]: the stages run by this call, in order
    calls,         \* calls[c]: the argument lists handed to the verifier, this call
    result,        \* result[c]: <<the closure's outcome>>, or <<>>
    ret,           \* ret[c]: the boolean returned
    rets,          \* every boolean returned so far, by any call
    extMemo        \* the sampled graph of the external verifier

vars == <<active, args, mem, mem0, pc, firstBlock, lastBlock, vkBytes, proofBytes,
          stageResult, started, calls, result, ret, rets, extMemo>>

\* ------------------------------------------------------------------- inputs

\* A (pointer, length) pair with the region behind it, for region name r:
\* a null pointer with length 1, or a valid pointer to exactly len bytes.
RawBuffers(r, contents) ==
    {[ptr |-> NULL, len |-> 1, bytes |-> <<>>]}
    \cup {[ptr |-> r, len |-> Len(b), bytes |-> b] : b \in contents}

\* Contents of the verifying-key region and of the proof region.
VkSamples == {<<>>, <<0>>}

ProofSamples == {<<>>, <<1>>}

\* Every key buffer of k * KEY_ENCODING_SIZE bytes, k up to n.
KeyBuffers(n) == UNION {[1..(k * KEY_ENCODING_SIZE) -> Byte] : k \in 0..n}

\* The (index, maximum_non_signers) pairs of the descriptors: the second has
\* a threshold above any key count.
EpochHeaders(n) ==
    {[index |-> 0, maximum_non_signers |-> 1],
     [index |-> 2, maximum_non_signers |-> n + 1]}

\* An EpochBlockFFI with the region behind its pubkeys pointer, for region r.
Descriptors(r, n) ==
    {[ffi |-> [index |-> h.index,
               maximum_non_signers |-> h.maximum_non_signers,
               pubkeys_num |-> IF b.ptr = NULL THEN 1 ELSE Len(b.bytes) \div KEY_ENCODING_SIZE,
               pubkeys |-> b.ptr],
      bytes |-> b.bytes] : h \in EpochHeaders(n), b \in RawBuffers(r, KeyBuffers(n))}

\* The four values verify marshals from arguments a over memory m.
Marshalled(m, a) ==
    [vk |-> read_slice(m, a.vk, a.vk_len),
     first |-> try_from(m, a.first_epoch),
     last |-> try_from(m, a.last_epoch),
     proof |-> read_slice(m, a.proof, a.proof_len)]

AllMarshalled(m, a) ==
    \A k \in {"vk", "first", "last", "proof"} : Marshalled(m, a)[k].kind = "Ok"

\* The tuple the verifier is to judge, for arguments that marshal.
Statement(m, a) ==
    [vk |-> Marshalled(m, a).vk.val, first |-> Marshalled(m, a).first.val,
     last |-> Marshalled(m, a).last.val, proof |-> Marshalled(m, a).proof.val]

\* The callers in `callers` are given the same arguments over memory of the
\* same contents (each its own regions); the verifier's answer on the tuple
\* these denote is any of its outcomes.
InitWith(callers, n) ==
    \E v \in RawBuffers("vk", VkSamples), p \in RawBuffers("proof", ProofSamples),
       f \in Descriptors("first", n), l \in Descriptors("last", n) :
        LET a == [vk |-> v.ptr, vk_len |-> v.len, proof |-> p.ptr, proof_len |-> p.len,
                  first_epoch |-> f.ffi, last_epoch |-> l.ffi]
            m == [vk |-> v.bytes, proof |-> p.bytes, first |-> f.bytes, last |-> l.bytes]
        IN  /\ active = callers
            /\ args = [c \in Callers |-> a]
            /\ mem = [c \in Callers |-> m]
            /\ mem0 = [c \in Callers |-> m]
            /\ pc = [c \in Callers |-> EntryStage]
            /\ firstBlock = [c \in Callers |-> NoBlock]
            /\ lastBlock = [c \in Callers |-> NoBlock]
            /\ vkBytes = [c \in Callers |-> NoBytes]
            /\ proofBytes = [c \in Callers |-> NoBytes]
            /\ stageResult = [c \in Callers |-> <<>>]
            /\ started = [c \in Callers |-> <<>>]
            /\ calls = [c \in Callers |-> <<>>]
            /\ result = [c \in Callers |-> <<>>]
            /\ ret = [c \in Callers |-> FALSE]
            /\ rets = {}
            /\ IF AllMarshalled(m, a)
               THEN \E o \in VerifierOutcomes : extMemo = [x \in {Statement(m, a)} |-> o]
               ELSE extMemo = <<>>

Init == InitWith({"a"}, MaxKeys)

InitPair == InitWith(Callers, PairMaxKeys)

\* ------------------------------------------------------------------ actions

\* What every stage but the verifier call does with its Result r: note it,
\* and either go on or leave the closure with the error or the panic.
Advance(c, s, r, region) ==
    /\ started' = [started EXCEPT ![c] = Append(@, s)]
    /\ stageResult' = [stageResult EXCEPT ![c] = [x \in DOMAIN @ \cup {s} |->
                                                   IF x = s THEN r ELSE @[x]]]
    /\ mem' = [mem EXCEPT ![c] = MemAfterRead(@, region)]
    /\ pc' = [pc EXCEPT ![c] = IF r.kind = "Fault" THEN FaultExit(s) ELSE Question(r, s)]
    /\ result' = [result EXCEPT ![c] = IF r.kind = "Ok" THEN @ ELSE <<r>>]
    /\ UNCHANGED <<active, args, mem0, calls, ret, rets, extMemo>>

\* let first_epoch = EpochBlock::try_from(&first_epoch)?;
BuildFirst(c) ==
    /\ pc[c] = "build_first"
    /\ LET r == try_from(mem[c], FirstEpochArg(args[c]))
       IN  /\ Advance(c, "build_first", r, "first")
           /\ firstBlock' = [firstBlock EXCEPT ![c] = IF r.kind = "Ok" THEN r.val ELSE @]
    /\ UNCHANGED <<lastBlock, vkBytes, proofBytes>>

\* let last_epoch = EpochBlock::try_from(&last_epoch)?;
BuildLast(c) ==
    /\ pc[c] = "build_last"
    /\ LET r == try_from(mem[c], LastEpochArg(args[c]))
       IN  /\ Advance(c, "build_last", r, "last")
           /\ lastBlock' = [lastBlock EXCEPT ![c] = IF r.kind = "Ok" THEN r.val ELSE @]
    /\ UNCHANGED <<firstBlock, vkBytes, proofBytes>>

\* let vk = read_slice(vk, vk_len as usize)?;
ReadVk(c) ==
    /\ pc[c] = "read_vk"
    /\ LET r == read_slice(mem[c], args[c].vk, args[c].vk_len)
       IN  /\ Advance(c, "read_vk", r, "vk")
           /\ vkBytes' = [vkBytes EXCEPT ![c] = IF r.kind = "Ok" THEN r.val ELSE @]
    /\ UNCHANGED <<firstBlock, lastBlock, proofBytes>>

\* let proof = read_slice(proof, proof_len as usize)?;
ReadProof(c) ==
    /\ pc[c] = "read_proof"
    /\ LET r == read_slice(mem[c], args[c].proof, args[c].proof_len)
       IN  /\ Advance(c, "read_proof", r, "proof")
           /\ proofBytes' = [proofBytes EXCEPT ![c] = IF r.kind = "Ok" THEN r.val ELSE @]
    /\ UNCHANGED <<firstBlock, lastBlock, vkBytes>>

\* epoch_snark::verify(&vk, &first_epoch, &last_epoch, &proof)
CallVerifier(c) ==
    /\ pc[c] = "call_verifier"
    /\ LET a == VerifierCallArgs(vkBytes[c], firstBlock[c], lastBlock[c], proofBytes[c])
       IN  \E o \in VerifierOutcomes :
             /\ a \in DOMAIN extMemo => o = extMemo[a]
             /\ extMemo' = [x \in DOMAIN extMemo \cup {a} |->
                              IF x = a THEN o ELSE extMemo[x]]
             /\ calls' = [calls EXCEPT ![c] = Append(@, a)]
             /\ result' = [result EXCEPT ![c] = <<ClosureValue(VerifierResult(o))>>]
             /\ pc' = [pc EXCEPT ![c] = IF o = "fault" THEN FaultExit("call_verifier")
                                        ELSE "convert"]
    /\ started' = [started EXCEPT ![c] = Append(@, "call_verifier")]
    /\ UNCHANGED <<active, args, mem, mem0, firstBlock, lastBlock, vkBytes, proofBytes,
                   stageResult, ret, rets>>

\* convert_result_to_bool(closure): the closure's outcome becomes the bool.
Convert(c) ==
    /\ pc[c] = "convert"
    /\ pc' = [pc EXCEPT ![c] = "returned"]
    /\ ret' = [ret EXCEPT ![c] = convert_result_to_bool(result[c][1])]
    /\ rets' = rets \cup {convert_result_to_bool(result[c][1])}
    /\ UNCHANGED <<active, args, mem, mem0, firstBlock, lastBlock, vkBytes, proofBytes,
                   stageResult, started, calls, result, extMemo>>

\* The caller calls verify again with the same arguments: a fresh closure.
CallAgain(c) ==
    /\ pc[c] = "returned"
    /\ pc' = [pc EXCEPT ![c] = EntryStage]
    /\ firstBlock' = [firstBlock EXCEPT ![c] = NoBlock]
    /\ lastBlock' = [lastBlock EXCEPT ![c] = NoBlock]
    /\ vkBytes' = [vkBytes EXCEPT ![c] = NoBytes]
    /\ proofBytes' = [proofBytes EXCEPT ![c] = NoBytes]
    /\ stageResult' = [stageResult EXCEPT ![c] = <<>>]
    /\ started' = [started EXCEPT ![c] = <<>>]
    /\ calls' = [calls EXCEPT ![c] = <<>>]
    /\ result' = [result EXCEPT ![c] = <<>>]
    /\ UNCHANGED <<active, args, mem, mem0, ret, rets, extMemo>>

\* One call of verify.
Next ==
    \/ \E c \in active : BuildFirst(c)
    \/ \E c \in active : BuildLast(c)
    \/ \E c \in active : ReadVk(c)
    \/ \E c \in active : ReadProof(c)
    \/ \E c \in active : CallVerifier(c)
    \/ \E c \in active : Convert(c)

\* Calls of verify, one after the other and from two callers at once.
NextPair ==
    \/ Next
    \/ \E c \in active : CallAgain(c)

Spec == Init /\ [][Next]_vars

SpecPair == InitPair /\ [][NextPair]_vars

\* ------------------------------------------------- what the claims speak of

\* The stages of one call, as the written specification orders them.
SpecOrder == <<"read_vk", "read_proof", "build_first", "build_last", "call_verifier">>

\* The stages of one call, as the closure orders them.
CodeOrder == <<"build_first", "build_last", "read_vk", "read_proof", "call_verifier">>

IsPrefix(s, t) == Len(s) <= Len(t) /\ SubSeq(t, 1, Len(s)) = s

\* The (pointer, length) of each stage's buffer, length counted in bytes for
\* the two reads and in keys for the two descriptors.
BufferOf(c, s) ==
    CASE s = "read_vk" -> [ptr |-> args[c].vk, len |-> args[c].vk_len]
      [] s = "read_proof" -> [ptr |-> args[c].proof, len |-> args[c].proof_len]
      [] s = "build_first" -> [ptr |-> args[c].first_epoch.pubkeys,
                               len |-> args[c].first_epoch.pubkeys_num]
      [] s = "build_last" -> [ptr |-> args[c].last_epoch.pubkeys,
                              len |-> args[c].last_epoch.pubkeys_num]

Absent(c, s) == BufferOf(c, s).len = 0 \/ BufferOf(c, s).ptr = NULL

\* The length in bytes read_slice is asked for by stage s.
ByteLength(c, s) ==
    IF s \in {"build_first", "build_last"}
    THEN BufferOf(c, s).len * KEY_ENCODING_SIZE
    ELSE BufferOf(c, s).len

InputStages == {"build_first", "build_last", "read_vk", "read_proof"}

\* Chunk i of the key region `region` as the caller set it up, decoded.
DecodedChunk(c, region, i) == decode_public_key(chunk_at(mem0[c][region], i))

\* The key buffer behind descriptor e is present and every chunk decodes.
WellFormed(c, e, region) ==
    /\ e.pubkeys # NULL
    /\ e.pubkeys_num > 0
    /\ \A i \in 1..e.pubkeys_num : DecodedChunk(c, region, i).kind = "Ok"

\* The block a well-formed descriptor denotes, chunk by chunk.
BlockOf(c, e, region) ==
    [index |-> e.index,
     maximum_non_signers |-> e.maximum_non_signers,
     new_public_keys |-> [i \in 1..e.pubkeys_num |-> DecodedChunk(c, region, i).val]]

\* c's four buffers are present and all its key chunks decode.
GoodInput(c) ==
    /\ \A s \in InputStages : ~Absent(c, s)
    /\ WellFormed(c, args[c].first_epoch, "first")
    /\ WellFormed(c, args[c].last_epoch, "last")

\* The tuple a good input denotes.
TupleOf(c) ==
    [vk |-> SubSeq(mem0[c].vk, 1, args[c].vk_len),
     first |-> BlockOf(c, args[c].first_epoch, "first"),
     last |-> BlockOf(c, args[c].last_epoch, "last"),
     proof |-> SubSeq(mem0[c].proof, 1, args[c].proof_len)]

\* The external verifier's answer on the tuple c's good input denotes.
VerifierSays(c, o) == TupleOf(c) \in DOMAIN extMemo /\ extMemo[TupleOf(c)] = o

\* The concatenation of the serialized forms of keys.
RECURSIVE encode_all(_)
encode_all(keys) ==
    IF keys = <<>> THEN <<>>
    ELSE encode_public_key(Head(keys)) \o encode_all(Tail(keys))

\* The first chunk of the region that does not decode (0: every chunk decodes).
FirstBadChunk(c, region, num) ==
    LET bad == {i \in 1..num : DecodedChunk(c, region, i).kind # "Ok"}
    IN  IF bad = {} THEN 0 ELSE CHOOSE i \in bad : \A j \in bad : i <= j

Ran(c, s) == s \in DOMAIN stageResult[c]

\* ----------------------------------------------------------------- C1

\* C1: a call that has returned returned true exactly when the four values
\* marshalled and the external verifier reported success on them; every
\* error, rejection and caught panic gives the one value false.
C1_TrueIffAllStagesAndVerifierSucceed ==
    \A c \in active :
        pc[c] = "returned" =>
            (ret[c] = TRUE <=> (GoodInput(c) /\ VerifierSays(c, "accept")))

C1_Witness ==
    \E c \in active :
        pc[c] = "returned" /\ ret[c] = TRUE /\ GoodInput(c) /\ VerifierSays(c, "accept")

\* ----------------------------------------------------------------- C2

\* C2 as written: the stages run in the order read vk, read proof, build
\* first, build last, call verifier.
C2_StagesInSpecOrder == \A c \in active : IsPrefix(started[c], SpecOrder)

\* C2 amended: the stages run in the order build first, build last, read vk,
\* read proof, call verifier, and a stage starts only when every stage
\* started before it has completed with success.
C2_StagesInCodeOrder ==
    \A c \in active :
        /\ IsPrefix(started[c], CodeOrder)
        /\ \A i \in 1..(Len(started[c]) - 1) :
              Ran(c, started[c][i]) /\ stageResult[c][started[c][i]].kind = "Ok"

C2_Witness ==
    \E c \in active :
        /\ started[c] = CodeOrder
        /\ \A s \in InputStages : stageResult[c][s].kind = "Ok"

\* ----------------------------------------------------------------- C3

\* C3: a call is always at one of its five stages, at the adapter's
\* conversion or returned, never unwinding across the boundary; a stage that
\* raised a panic hands control to the adapter; and a call in which a stage
\* raised an error or a panic returned false.
C3_NoFaultCrossesBoundary ==
    \A c \in active :
        /\ pc[c] \in {CodeOrder[i] : i \in 1..Len(CodeOrder)} \cup {"convert", "returned"}
        /\ result[c] = <<Fault>> => pc[c] \in {"convert", "returned"}
        /\ (pc[c] = "returned" /\ result[c][1].kind # "Ok") => ret[c] = FALSE

C3_Witness ==
    \E c \in active :
        /\ pc[c] = "returned"
        /\ started[c] = <<"build_first">>
        /\ result[c][1] = Fault
        /\ ret[c] = FALSE

\* ----------------------------------------------------------------- C4

\* C4: when a length is 0 or a pointer is null, the read of that buffer, if
\* the call gets to it, fails with InvalidInput; the external verifier is
\* never invoked, no panic crosses the boundary, and the call returns false.
C4_AbsentBufferGivesFalse ==
    \A c \in active : \A s \in InputStages :
        Absent(c, s) =>
            /\ read_slice(mem0[c], BufferOf(c, s).ptr, ByteLength(c, s)) = Err("InvalidInput", 0)
            /\ Ran(c, s) => stageResult[c][s] = Err("InvalidInput", 0)
            /\ calls[c] = <<>>
            /\ pc[c] \notin {"call_verifier", "unwound"}
            /\ pc[c] = "returned" => ret[c] = FALSE

C4_Witness ==
    \E c \in active :
        /\ pc[c] = "returned"
        /\ args[c].proof_len = 0
        /\ \A s \in InputStages \ {"read_proof"} : ~Absent(c, s)
        /\ Ran(c, "read_proof")
        /\ stageResult[c]["read_proof"] = Err("InvalidInput", 0)
        /\ ret[c] = FALSE

\* ----------------------------------------------------------------- C5

\* C5: a call whose four buffers are present, whose key chunks all decode
\* and whose tuple the external verifier accepts returns true.
C5_AcceptedInputReturnsTrue ==
    \A c \in active :
        (pc[c] = "returned" /\ GoodInput(c) /\ VerifierSays(c, "accept")) => ret[c] = TRUE

\* The shape of the crate's test: epoch indices 0 and 2, threshold 1 in the
\* first epoch, as many keys as the model allows.
C5_Witness ==
    \E c \in active :
        /\ pc[c] = "returned"
        /\ GoodInput(c)
        /\ args[c].first_epoch.index = 0 /\ args[c].last_epoch.index = 2
        /\ args[c].first_epoch.maximum_non_signers = 1
        /\ args[c].first_epoch.pubkeys_num = args[c].last_epoch.pubkeys_num
        /\ args[c].first_epoch.pubkeys_num > 1
        /\ VerifierSays(c, "accept")
        /\ ret[c] = TRUE

\* ----------------------------------------------------------------- C6

\* C6: calls with the same arguments over the same memory, one after the
\* other or interleaved, all return the same boolean, which is the one the
\* call's own input decides; no call changes caller memory.
C6_SameInputSameResult ==
    /\ Cardinality(rets) <= 1
    /\ mem = mem0
    /\ \A c \in active :
          pc[c] = "returned" => (ret[c] <=> (GoodInput(c) /\ VerifierSays(c, "accept")))

\* Caller a has returned true; caller b returned true before and is inside
\* its next call.
C6_Witness ==
    /\ pc["a"] = "returned" /\ ret["a"] = TRUE
    /\ pc["b"] = "call_verifier" /\ ret["b"] = TRUE
    /\ rets = {TRUE}

\* ----------------------------------------------------------------- C7

\* The block built from descriptor e over region `region` has pubkeys_num
\* keys, key i the decoding of chunk i, and serializes back to the region.
KeysAsInBuffer(c, e, region, block) ==
    /\ Len(block.new_public_keys) = e.pubkeys_num
    /\ \A i \in 1..e.pubkeys_num :
          block.new_public_keys[i] = DecodedChunk(c, region, i).val
    /\ encode_all(block.new_public_keys) = mem0[c][region]
    /\ Len(encode_all(block.new_public_keys)) = e.pubkeys_num * KEY_ENCODING_SIZE

\* C7: for a well-formed descriptor, once its stage has run the block holds
\* exactly its keys, in buffer order.
C7_BlockKeysAreBufferChunks ==
    \A c \in active :
        /\ (Ran(c, "build_first") /\ WellFormed(c, args[c].first_epoch, "first"))
              => KeysAsInBuffer(c, args[c].first_epoch, "first", firstBlock[c])
        /\ (Ran(c, "build_last") /\ WellFormed(c, args[c].last_epoch, "last"))
              => KeysAsInBuffer(c, args[c].last_epoch, "last", lastBlock[c])

\* Both blocks built, the first from the keys 2, 1 in that order, the last
\* from other keys.
C7_Witness ==
    \E c \in active :
        /\ Ran(c, "build_last")
        /\ firstBlock[c].new_public_keys = <<[point |-> 2], [point |-> 1]>>
        /\ lastBlock[c] # NoBlock
        /\ lastBlock[c].new_public_keys # firstBlock[c].new_public_keys

\* ----------------------------------------------------------------- C8

\* C8: the verifier is given the verifying-key bytes, the block of
\* first_epoch, the block of last_epoch and the proof bytes, each block with
\* its descriptor's index and threshold; a call whose four values marshalled
\* invokes it, whatever the thresholds.
C8_VerifierGetsMarshalledTuple ==
    \A c \in active :
        /\ \A i \in 1..Len(calls[c]) : GoodInput(c) /\ calls[c][i] = TupleOf(c)
        /\ (GoodInput(c) /\ pc[c] \in {"convert", "returned"}) => Len(calls[c]) = 1

\* The verifier was invoked with a first block whose threshold exceeds its
\* key count.
C8_Witness ==
    \E c \in active :
        /\ Len(calls[c]) = 1
        /\ calls[c][1].first.maximum_non_signers > Len(calls[c][1].first.new_public_keys)
        /\ calls[c][1].first.index # calls[c][1].last.index
        /\ calls[c][1].first.new_public_keys # calls[c][1].last.new_public_keys

\* ----------------------------------------------------------------- C9

\* Descriptor e's buffer is present and its first chunk that does not decode
\* is rejected by the decoder (it does not make the decoder panic).
DecodeFails(c, e, region) ==
    /\ e.pubkeys # NULL
    /\ e.pubkeys_num > 0
    /\ FirstBadChunk(c, region, e.pubkeys_num) # 0
    /\ DecodedChunk(c, region, FirstBadChunk(c, region, e.pubkeys_num)).kind = "Err"

\* What follows once stage s has run on such a descriptor.
FailedAtFirstBadChunk(c, s, e, region, block) ==
    /\ stageResult[c][s] = Err("KeyDecodeError", FirstBadChunk(c, region, e.pubkeys_num))
    /\ block = NoBlock
    /\ calls[c] = <<>>
    /\ pc[c] \in {"convert", "returned"}
    /\ pc[c] = "returned" => ret[c] = FALSE

\* C9: a chunk that does not decode fails the build with KeyDecodeError at
\* the first such chunk, leaves no block, and the call returns false without
\* the verifier.
C9_DecodeErrorStopsTheCall ==
    \A c \in active :
        /\ (Ran(c, "build_first") /\ DecodeFails(c, args[c].first_epoch, "first"))
              => FailedAtFirstBadChunk(c, "build_first", args[c].first_epoch, "first",
                                       firstBlock[c])
        /\ (Ran(c, "build_last") /\ DecodeFails(c, args[c].last_epoch, "last"))
              => FailedAtFirstBadChunk(c, "build_last", args[c].last_epoch, "last",
                                       lastBlock[c])

\* The last epoch's first key decodes and its second does not.
C9_Witness ==
    \E c \in active :
        /\ pc[c] = "returned"
        /\ Ran(c, "build_last")
        /\ stageResult[c]["build_last"] = Err("KeyDecodeError", 2)
        /\ lastBlock[c] = NoBlock
        /\ ret[c] = FALSE

\* ----------------------------------------------------------------- C10

\* C10: no stage runs twice, nothing runs after a stage that failed, and
\* the verifier is invoked at most once and only after the four values
\* marshalled.
C10_EachStageOnceAndNothingAfterFailure ==
    \A c \in active :
        /\ \A i, j \in 1..Len(started[c]) : started[c][i] = started[c][j] => i = j
        /\ \A i \in 1..Len(started[c]) :
              (Ran(c, started[c][i]) /\ stageResult[c][started[c][i]].kind # "Ok")
                  => i = Len(started[c])
        /\ Len(calls[c]) <= 1
        /\ (calls[c] # <<>> \/ pc[c] = "call_verifier") =>
              \A s \in InputStages : Ran(c, s) /\ stageResult[c][s].kind = "Ok"

\* A call that failed at its third stage and returned.
C10_Witness ==
    \E c \in active :
        /\ pc[c] = "returned"
        /\ started[c] = <<"build_first", "build_last", "read_vk">>
        /\ stageResult[c]["read_vk"].kind = "Err"
        /\ calls[c] = <<>>

=============================================================================
